---- MODULE Spec2Model ----
(***************************************************************************)
(* Model of app/src/lib/git/for-each-ref.ts: getBranches and               *)
(* getBranchesDifferingFromUpstream.                                       *)
(*                                                                         *)
(* A JavaScript string is a sequence of characters; a character is a       *)
(* one-character TLA+ string, except the three control characters, which   *)
(* are written NUL, US and LF.                                             *)
(***************************************************************************)
EXTENDS Integers, Sequences, FiniteSets, TLC

VARIABLES
    fn,                   \* which exported function this call runs
    pc,                   \* position of the call in the function's body
    world,                \* the repository as the git executable sees it
    prefixes,             \* getBranches: the rest parameter ...prefixes
    allBranches,          \* getBranchesDifferingFromUpstream: the parameter
    gitCalls,             \* number of requests sent to git() by this call
    result,               \* const result = await git(...)
    lines,                \* const lines
    ix,                   \* index of the loop over lines / localBranches
    pieces,               \* the fields of the record split last
    branches,             \* getBranches: const branches
    localBranches,        \* const localBranches
    remoteBranchShas,     \* const remoteBranchShas (a Map)
    eligibleBranchNames,  \* const eligibleBranchNames (a Set)
    ret                   \* how the returned promise settled

vars == <<fn, pc, world, prefixes, allBranches, gitCalls, result, lines, ix,
          pieces, branches, localBranches, remoteBranchShas,
          eligibleBranchNames, ret>>

-----------------------------------------------------------------------------
(* Bounds of the model *)

\* largest number of refs in the repository of a getBranches call
MaxListRefs == 3

\* largest number of refs in the repository of a
\* getBranchesDifferingFromUpstream call
MaxDiffRefs == 3

\* largest number of records of a response given to the tokenizer of
\* getBranches
MaxTokenRecords == 2

-----------------------------------------------------------------------------
(* Characters and strings *)

NUL == "NUL"
LF == "LF"

\* String.fromCharCode(parseInt(delimiter, 16)) with delimiter '1F'
delimiterString == "US"

None == <<>>

Some(x) == <<x>>



\* String.prototype.startsWith
StartsWith(s, p) == Len(p) <= Len(s) /\ SubSeq(s, 1, Len(p)) = p

\* String.prototype.substr(start) with a zero-based start
Substr(s, start) == SubSeq(s, start + 1, Len(s))

\* String.prototype.split(sep) for a one-character separator: the pieces
\* between the separators, always one piece more than there are separators
Split(s, sep) ==
    LET at == {i \in DOMAIN s : s[i] = sep}
        \* the place of the k-th separator; 0 and Len(s) + 1 bound the string
        Place(k) ==
            IF k = 0 THEN 0
            ELSE IF k > Cardinality(at) THEN Len(s) + 1
            ELSE CHOOSE i \in at : Cardinality({j \in at : j < i}) = k - 1
    IN  [k \in 1..(Cardinality(at) + 1) |->
            SubSeq(s, Place(k - 1) + 1, Place(k) - 1)]

\* Array.prototype.join
RECURSIVE Join(_, _)
Join(parts, sep) ==
    IF parts = <<>> THEN <<>>
    ELSE IF Len(parts) = 1 THEN parts[1]
    ELSE parts[1] \o sep \o Join(Tail(parts), sep)

\* lines.splice(-1, 1): the array without its last element
SpliceLast(a) == SubSeq(a, 1, Len(a) - 1)

RECURSIVE Flatten(_)
Flatten(ss) ==
    IF ss = <<>> THEN <<>> ELSE Head(ss) \o Flatten(Tail(ss))

Range(s) == {s[i] : i \in DOMAIN s}

\* Map.prototype.set
MapSet(m, k, v) == [x \in (DOMAIN m) \cup {k} |-> IF x = k THEN v ELSE m[x]]

EmptyMap == [x \in {} |-> <<>>]

-----------------------------------------------------------------------------
(* Ref paths, names, object ids, identities *)

RefsHead == <<"r", "e", "f", "s", "/", "h", "e", "a", "d">>
RefsHeads == RefsHead \o <<"s">>
RefsRemotes == <<"r", "e", "f", "s", "/", "r", "e", "m", "o", "t", "e", "s">>
Refs == <<"r", "e", "f", "s">>
Slash == <<"/">>

Digits == {"0", "1", "2", "3", "4", "5", "6", "7", "8", "9"}

\* an identity as git prints it: name <email> timestamp timezone
GoodIdentity ==
    <<"n", " ", "<", "e", ">", " ", "1", " ", "+", "0", "1", "0", "0">>

\* an identity without timestamp and timezone
BadIdentity == <<"n", " ", "<", "e", ">">>

\* an identity whose name holds a newline
NewlineIdentity ==
    <<"n", LF, "m", " ", "<", "e", ">", " ", "1", " ", "0", "0", "0", "0">>

\* CommitIdentity.parseIdentity: the identity when the string starts with
\* name, " <", email, "> ", digits, " ", an optional sign and four digits
\* (name and email the shortest that fit, neither holding a line break);
\* None (null) when it does not
ParseIdentity(s) ==
    LET n == Len(s)
        NoBreak(a, b) == \A k \in a..b : s[k] # LF
        AllDigits(a, b) == \A k \in a..b : s[k] \in Digits
        Zone(k) ==
            \/ k + 4 <= n /\ AllDigits(k + 1, k + 4)
            \/ /\ k + 5 <= n
               /\ s[k + 1] \in {"+", "-"}
               /\ AllDigits(k + 2, k + 5)
        \* the ends of the timestamp's digits that may follow "> " at j
        Stamps(j) ==
            {k \in (j + 3)..n :
                AllDigits(j + 2, k - 1) /\ s[k] = " " /\ Zone(k)}
        \* the places of "> " that may follow " <" at i
        Closes(i) ==
            {j \in (i + 2)..(n - 1) :
                /\ s[j] = ">" /\ s[j + 1] = " "
                /\ NoBreak(i + 2, j - 1)
                /\ Stamps(j) # {}}
        opens ==
            {i \in 1..(n - 1) :
                /\ s[i] = " " /\ s[i + 1] = "<"
                /\ NoBreak(1, i - 1)
                /\ Closes(i) # {}}
    IN  IF opens = {} THEN None
        ELSE LET i == CHOOSE a \in opens : \A b \in opens : a <= b
                 j == CHOOSE a \in Closes(i) : \A b \in Closes(i) : a <= b
                 k == CHOOSE a \in Stamps(j) : TRUE
             IN  Some([name |-> SubSeq(s, 1, i - 1),
                       email |-> SubSeq(s, i + 2, j - 1),
                       date |-> SubSeq(s, j + 2, k - 1)])

-----------------------------------------------------------------------------
(* The git executable behind git() of ./core *)

\* One ref of the repository: what for-each-ref prints for each atom
RefEntry(ref, name, up, upShort, sha, shortSha, author, committer, sym, head) ==
    [ref |-> ref, name |-> name, upstream |-> up, upstreamShort |-> upShort,
     sha |-> sha, shortSha |-> shortSha, author |-> author,
     committer |-> committer, symref |-> sym, head |-> head]

\* the value for-each-ref prints for one element of a format
Atom(a, e) ==
    CASE a = "%(refname)" -> e.ref
      [] a = "%(refname:short)" -> e.name
      [] a = "%(upstream)" -> e.upstream
      [] a = "%(upstream:short)" -> e.upstreamShort
      [] a = "%(objectname)" -> e.sha
      [] a = "%(objectname:short)" -> e.shortSha
      [] a = "%(author)" -> e.author
      [] a = "%(committer)" -> e.committer
      [] a = "%(symref)" -> e.symref
      [] a = "%(HEAD)" -> e.head
      [] a = "%1F" -> <<delimiterString>>

\* for-each-ref <pattern>: a ref matches a pattern that is the ref or a
\* leading part of it up to a slash
MatchesPattern(ref, pattern) ==
    ref = pattern \/ StartsWith(ref, pattern \o Slash)

\* the refs for-each-ref <patterns> shows, in the order of the ref store
ShownRefs(patterns, refs) ==
    LET Shown(e) ==
            \E i \in DOMAIN patterns : MatchesPattern(e.ref, patterns[i])
    IN  SelectSeq(refs, Shown)

\* the output of for-each-ref --format=<format> for the refs it shows: the
\* elements of the format, which the callers join with %00, of every ref,
\* each ref's line ended by a newline
RenderRefs(format, shown) ==
    Flatten([i \in DOMAIN shown |->
                Join([k \in DOMAIN format |-> Atom(format[k], shown[i])],
                     <<NUL>>) \o <<LF>>])

\* for-each-ref --format=<format> <patterns>
ForEachRef(format, patterns, refs) ==
    RenderRefs(format, ShownRefs(patterns, refs))

\* git(args, path, name, {expectedErrors}): the result of the request, or
\* the error it throws. An error of expectedErrors comes back as the
\* result's gitError; any other error is thrown
Git(format, patterns, expectedErrors, w) ==
    IF w.status = "ok"
    THEN [threw |-> FALSE, gitError |-> "",
          stdout |-> ForEachRef(format, patterns, w.refs)]
    ELSE IF w.status \in expectedErrors
    THEN [threw |-> FALSE, gitError |-> w.status, stdout |-> <<>>]
    ELSE [threw |-> TRUE, gitError |-> w.status, stdout |-> <<>>]

-----------------------------------------------------------------------------
(* How the promise of a call settles *)

Pending == [kind |-> "pending", value |-> <<>>, error |-> <<>>]

Return(v) == [kind |-> "return", value |-> v, error |-> <<>>]

Throw(e) == [kind |-> "throw", value |-> <<>>, error |-> e]

\* the locals of a call before they are assigned
NoResult == [threw |-> FALSE, gitError |-> "", stdout |-> <<>>]

-----------------------------------------------------------------------------
(* getBranches *)

\* const format = [...] (joined with %00 by the caller, by NUL by git)
ListFormat ==
    <<"%(refname)", "%(refname:short)", "%(upstream:short)", "%(objectname)",
      "%(objectname:short)", "%(author)", "%(committer)", "%(symref)",
      "%1F">>

\* ExpectedErrors naming no error
ExpectedErrors_None == {}

\* { expectedErrors: new Set([GitError.NotAGitRepository]) }
ExpectedErrors == {"NotAGitRepository"}

\* if (!prefixes || !prefixes.length) prefixes = ['refs/heads', 'refs/remotes']
EffectivePrefixes(p) == IF Len(p) = 0 THEN <<RefsHeads, RefsRemotes>> ELSE p

\* names.split(delimiterString) and lines.splice(-1, 1)
ListLines(stdout) == SpliceLast(Split(stdout, delimiterString))

\* ListPieces dropping every newline a later record starts with
ListPieces_StripAll(i, line) ==
    LET breaks == {k \in 0..Len(line) : \A j \in 1..k : line[j] = LF}
        n == CHOOSE k \in breaks : \A j \in breaks : j <= k
    IN  Split(IF i > 0 THEN Substr(line, n) ELSE line, NUL)

\* (ix > 0 ? line.substr(1) : line).split('\0'), ix counted from 0
ListPieces(i, line) == Split(IF i > 0 THEN Substr(line, 1) ELSE line, NUL)

\* ref.startsWith('refs/head') ? BranchType.Local : BranchType.Remote
BranchTypeOf(ref) == IF StartsWith(ref, RefsHead) THEN "Local" ELSE "Remote"

\* new Branch(name, upstream.length > 0 ? upstream : null, branchTip, type)
NewBranch(name, upstream, sha, author, type) ==
    [name |-> name,
     upstream |-> IF Len(upstream) > 0 THEN Some(upstream) ELSE None,
     tip |-> [sha |-> sha, author |-> author],
     type |-> type]

\* IsSymbolicRef leaving no record out
IsSymbolicRef_Never(symref) == FALSE

\* symref.length > 0: the record is left out of the list
IsSymbolicRef(symref) == Len(symref) > 0

Quoted(s) == <<"'">> \o s \o <<"'">>

AuthorError(shortSha) ==
    <<"Couldn't parse author identity for ">> \o Quoted(shortSha)

CommitterError(shortSha) ==
    <<"Couldn't parse committer identity for ">> \o Quoted(shortSha)

\* IdentityError without the test of the committer
IdentityError_AuthorOnly(author, committer, shortSha) ==
    IF author = None THEN Some(AuthorError(shortSha)) ELSE None

\* if (!author) throw ...; if (!committer) throw ...: the error thrown for
\* a record, None when both identities parsed
IdentityError(author, committer, shortSha) ==
    IF author = None THEN Some(AuthorError(shortSha))
    ELSE IF committer = None THEN Some(CommitterError(shortSha))
    ELSE None

\* the request and its await: one call of git(), whose error, when it
\* throws, rejects the promise of getBranches
GetBranchesCall ==
    /\ fn = "getBranches" /\ pc = "start"
    /\ LET r == Git(ListFormat, EffectivePrefixes(prefixes),
                    ExpectedErrors, world)
       IN  /\ prefixes' = EffectivePrefixes(prefixes)
           /\ gitCalls' = gitCalls + 1
           /\ IF r.threw
              THEN /\ ret' = Throw(<<r.gitError>>)
                   /\ pc' = "done"
                   /\ UNCHANGED result
              ELSE /\ result' = r
                   /\ pc' = "called"
                   /\ UNCHANGED ret
    /\ UNCHANGED <<fn, world, allBranches, lines, ix, pieces, branches,
                   localBranches, remoteBranchShas, eligibleBranchNames>>

\* if (result.gitError === GitError.NotAGitRepository) return []
GetBranchesNotARepository ==
    /\ fn = "getBranches" /\ pc = "called"
    /\ result.gitError = "NotAGitRepository"
    /\ ret' = Return(<<>>)
    /\ pc' = "done"
    /\ UNCHANGED <<fn, world, prefixes, allBranches, gitCalls, result, lines,
                   ix, pieces, branches, localBranches, remoteBranchShas,
                   eligibleBranchNames>>

\* the split into lines, and the return of [] when there is none
GetBranchesSplit ==
    /\ fn = "getBranches" /\ pc = "called"
    /\ result.gitError # "NotAGitRepository"
    /\ lines' = ListLines(result.stdout)
    /\ IF Len(lines') = 0
       THEN ret' = Return(<<>>) /\ pc' = "done"
       ELSE ret' = ret /\ pc' = "loop"
    /\ ix' = 0
    /\ branches' = <<>>
    /\ UNCHANGED <<fn, world, prefixes, allBranches, gitCalls, result, pieces,
                   localBranches, remoteBranchShas, eligibleBranchNames>>

\* one turn of for (const [ix, line] of lines.entries())
GetBranchesLine ==
    /\ fn = "getBranches" /\ pc = "loop" /\ ix < Len(lines)
    /\ pieces' = ListPieces(ix, lines[ix + 1])
    /\ LET ref == pieces'[1]
           name == pieces'[2]
           upstream == pieces'[3]
           sha == pieces'[4]
           shortSha == pieces'[5]
           author == ParseIdentity(pieces'[6])
           committer == ParseIdentity(pieces'[7])
           symref == pieces'[8]
           type == BranchTypeOf(ref)
           error == IdentityError(author, committer, shortSha)
       IN  IF error # None
           THEN /\ ret' = Throw(error[1])
                /\ pc' = "done"
                /\ UNCHANGED <<ix, branches>>
           ELSE /\ branches' =
                      IF IsSymbolicRef(symref) THEN branches
                      ELSE Append(branches,
                                  NewBranch(name, upstream, sha, author[1], type))
                /\ ix' = ix + 1
                /\ UNCHANGED <<ret, pc>>
    /\ UNCHANGED <<fn, world, prefixes, allBranches, gitCalls, result, lines,
                   localBranches, remoteBranchShas, eligibleBranchNames>>

\* return branches
GetBranchesReturn ==
    /\ fn = "getBranches" /\ pc = "loop" /\ ix = Len(lines)
    /\ ret' = Return(branches)
    /\ pc' = "done"
    /\ UNCHANGED <<fn, world, prefixes, allBranches, gitCalls, result, lines,
                   ix, pieces, branches, localBranches, remoteBranchShas,
                   eligibleBranchNames>>

-----------------------------------------------------------------------------
(* getBranchesDifferingFromUpstream *)

\* const format = [...] (joined with %00 by the caller, by NUL by git)
DiffFormat ==
    <<"%(refname)", "%(refname:short)", "%(objectname)", "%(upstream)",
      "%(symref)", "%(HEAD)">>

\* const prefixes = ['refs/heads', 'refs/remotes']
DiffPrefixes == <<RefsHeads, RefsRemotes>>

\* result.stdout.split('\n') and lines.splice(-1, 1)
DiffLines(stdout) == SpliceLast(Split(stdout, LF))

\* const [ref, name, sha, upstream, symref, head] = line.split('\0')
DiffFields(line) ==
    LET f == Split(line, NUL)
    IN  [ref |-> f[1], name |-> f[2], sha |-> f[3], upstream |-> f[4],
         symref |-> f[5], head |-> f[6]]

\* Excluded without the test of the current branch
Excluded_SymrefOnly(r) == Len(r.symref) > 0

\* symref.length > 0 || head === '*'
Excluded(r) == Len(r.symref) > 0 \/ r.head = <<"*">>

\* ref.startsWith('refs/head')
IsLocalRef(ref) == StartsWith(ref, RefsHead)

\* the first loop's effect on localBranches for one record
CollectLocal(locals, r) ==
    IF ~Excluded(r) /\ IsLocalRef(r.ref) /\ Len(r.upstream) # 0
    THEN Append(locals, [name |-> r.name, ref |-> r.ref, sha |-> r.sha,
                         upstream |-> r.upstream])
    ELSE locals

\* the first loop's effect on remoteBranchShas for one record
CollectRemote(shas, r) ==
    IF ~Excluded(r) /\ ~IsLocalRef(r.ref)
    THEN MapSet(shas, r.ref, r.sha)
    ELSE shas

\* Map.prototype.get: None is undefined
MapGet(m, k) == IF k \in DOMAIN m THEN Some(m[k]) ELSE None

\* DiffersFromUpstream without the comparison of the SHAs
DiffersFromUpstream_AnySha(branch, shas) ==
    MapGet(shas, branch.upstream) # None

\* DiffersFromUpstream without the test for undefined
DiffersFromUpstream_Undefined(branch, shas) ==
    MapGet(shas, branch.upstream) # Some(branch.sha)

\* remoteSha !== undefined && remoteSha !== branch.sha
DiffersFromUpstream(branch, shas) ==
    LET remoteSha == MapGet(shas, branch.upstream)
    IN  remoteSha # None /\ remoteSha # Some(branch.sha)

\* CompareBranch replacing the names found so far instead of adding to them
CompareBranch_Overwrite(names, branch, shas) ==
    IF MapGet(shas, branch.upstream) \notin {None, Some(branch.sha)}
    THEN {branch.name}
    ELSE names

\* the second loop's effect on eligibleBranchNames for one local branch
CompareBranch(names, branch, shas) ==
    IF DiffersFromUpstream(branch, shas) THEN names \cup {branch.name}
    ELSE names

\* EligibleBranches without the test of the branch's type
EligibleBranches_AnyType(all, names) ==
    LET Eligible(branch) == branch.name \in names
    IN  SelectSeq(all, Eligible)

\* if (eligibleBranchNames.size === 0) return []; return allBranches.filter(
\*   branch => branch.type === BranchType.Local &&
\*             eligibleBranchNames.has(branch.name))
EligibleBranches(all, names) ==
    IF Cardinality(names) = 0 THEN <<>>
    ELSE LET Eligible(branch) == branch.type = "Local" /\ branch.name \in names
         IN  SelectSeq(all, Eligible)

\* the first loop over all the lines from line i on
RECURSIVE CollectAll(_, _, _)
CollectAll(acc, ls, i) ==
    IF i > Len(ls) THEN acc
    ELSE CollectAll([locals |-> CollectLocal(acc.locals, DiffFields(ls[i])),
                     shas |-> CollectRemote(acc.shas, DiffFields(ls[i]))],
                    ls, i + 1)

\* the second loop over all the local branches from branch i on
RECURSIVE CompareAll(_, _, _, _)
CompareAll(names, locals, shas, i) ==
    IF i > Len(locals) THEN names
    ELSE CompareAll(CompareBranch(names, locals[i], shas), locals, shas, i + 1)

\* what getBranchesDifferingFromUpstream returns for a response of git
DifferingFromUpstream(stdout, all) ==
    LET ls == DiffLines(stdout)
        collected == CollectAll([locals |-> <<>>, shas |-> EmptyMap], ls, 1)
    IN  IF Len(ls) = 0 THEN <<>>
        ELSE EligibleBranches(all, CompareAll({}, collected.locals,
                                             collected.shas, 1))

\* the request and its await
DifferingCall ==
    /\ fn = "getBranchesDifferingFromUpstream" /\ pc = "start"
    /\ LET r == Git(DiffFormat, DiffPrefixes, ExpectedErrors, world)
       IN  /\ gitCalls' = gitCalls + 1
           /\ IF r.threw
              THEN /\ ret' = Throw(<<r.gitError>>)
                   /\ pc' = "done"
                   /\ UNCHANGED result
              ELSE /\ result' = r
                   /\ pc' = "called"
                   /\ UNCHANGED ret
    /\ UNCHANGED <<fn, world, prefixes, allBranches, lines, ix, pieces,
                   branches, localBranches, remoteBranchShas,
                   eligibleBranchNames>>

\* if (result.gitError === GitError.NotAGitRepository) return []
DifferingNotARepository ==
    /\ fn = "getBranchesDifferingFromUpstream" /\ pc = "called"
    /\ result.gitError = "NotAGitRepository"
    /\ ret' = Return(<<>>)
    /\ pc' = "done"
    /\ UNCHANGED <<fn, world, prefixes, allBranches, gitCalls, result, lines,
                   ix, pieces, branches, localBranches, remoteBranchShas,
                   eligibleBranchNames>>

\* the split into lines, and the return of [] when there is none
DifferingSplit ==
    /\ fn = "getBranchesDifferingFromUpstream" /\ pc = "called"
    /\ result.gitError # "NotAGitRepository"
    /\ lines' = DiffLines(result.stdout)
    /\ IF Len(lines') = 0
       THEN ret' = Return(<<>>) /\ pc' = "done"
       ELSE ret' = ret /\ pc' = "collect"
    /\ ix' = 0
    /\ localBranches' = <<>>
    /\ remoteBranchShas' = EmptyMap
    /\ UNCHANGED <<fn, world, prefixes, allBranches, gitCalls, result, pieces,
                   branches, eligibleBranchNames>>

\* one turn of for (const line of lines); after the last one the second
\* loop starts with an empty eligibleBranchNames
DifferingCollect ==
    /\ fn = "getBranchesDifferingFromUpstream" /\ pc = "collect"
    /\ ix < Len(lines)
    /\ LET r == DiffFields(lines[ix + 1])
       IN  /\ pieces' = Split(lines[ix + 1], NUL)
           /\ localBranches' = CollectLocal(localBranches, r)
           /\ remoteBranchShas' = CollectRemote(remoteBranchShas, r)
    /\ IF ix + 1 < Len(lines)
       THEN ix' = ix + 1 /\ pc' = pc /\ UNCHANGED eligibleBranchNames
       ELSE ix' = 0 /\ pc' = "compare" /\ eligibleBranchNames' = {}
    /\ UNCHANGED <<fn, world, prefixes, allBranches, gitCalls, result, lines,
                   branches, ret>>

\* one turn of for (const branch of localBranches)
DifferingCompare ==
    /\ fn = "getBranchesDifferingFromUpstream" /\ pc = "compare"
    /\ ix < Len(localBranches)
    /\ eligibleBranchNames' =
           CompareBranch(eligibleBranchNames, localBranches[ix + 1],
                         remoteBranchShas)
    /\ ix' = ix + 1
    /\ UNCHANGED <<fn, pc, world, prefixes, allBranches, gitCalls, result,
                   lines, pieces, branches, localBranches, remoteBranchShas,
                   ret>>

\* the return of [] or of the filtered allBranches
DifferingReturn ==
    /\ fn = "getBranchesDifferingFromUpstream" /\ pc = "compare"
    /\ ix = Len(localBranches)
    /\ ret' = Return(EligibleBranches(allBranches, eligibleBranchNames))
    /\ pc' = "done"
    /\ UNCHANGED <<fn, world, prefixes, allBranches, gitCalls, result, lines,
                   ix, pieces, branches, localBranches, remoteBranchShas,
                   eligibleBranchNames>>

-----------------------------------------------------------------------------
(* The repositories and arguments of the model *)

Sha1 == <<"1", "1">>
Sha2 == <<"2", "2">>
Sha3 == <<"3", "3">>
Short(sha) == SubSeq(sha, 1, 1)

HeadsA == RefsHeads \o <<"/", "a">>
HeadsB == RefsHeads \o <<"/", "b">>
HeadsN == RefsHeads \o <<"/", "n">>
HeadX == RefsHead \o <<"/", "x">>
RemotesOA == RefsRemotes \o <<"/", "o", "/", "a">>
RemotesOB == RefsRemotes \o <<"/", "o", "/", "b">>
RemotesOHEAD == RefsRemotes \o <<"/", "o", "/", "H", "E", "A", "D">>

\* the refs a repository of a getBranches call may hold
ListRefPool ==
    {RefEntry(HeadsA, <<"a">>, up[1], up[2], Sha1, Short(Sha1), id[1], id[2],
              <<>>, <<" ">>) :
        up \in {<<<<>>, <<>>>>, <<RemotesOA, <<"o", "/", "a">>>>},
        id \in {<<GoodIdentity, GoodIdentity>>, <<BadIdentity, GoodIdentity>>,
                <<GoodIdentity, BadIdentity>>}}
    \cup
    {RefEntry(HeadsN, <<LF, "n", LF>>, <<>>, <<>>, Sha2, Short(Sha2), a,
              GoodIdentity, <<>>, <<" ">>) :
        a \in {GoodIdentity, NewlineIdentity}}
    \cup
    {RefEntry(RemotesOA, <<"o", "/", "a">>, <<>>, <<>>, Sha3, Short(Sha3),
              GoodIdentity, c, <<>>, <<" ">>) :
        c \in {GoodIdentity, <<>>}}
    \cup
    {RefEntry(RemotesOHEAD, <<"o", "/", "H", "E", "A", "D">>, <<>>, <<>>,
              <<"4", "4">>, <<"4">>, a, GoodIdentity, RemotesOA, <<" ">>) :
        a \in {GoodIdentity, BadIdentity}}
    \cup
    {RefEntry(HeadX, <<"h", "e", "a", "d", "/", "x">>, <<>>, <<>>,
              <<"5", "5">>, <<"5">>, GoodIdentity, GoodIdentity, <<>>,
              <<" ">>)}

\* the prefixes a caller of getBranches may pass
ListPrefixes == {<<>>, <<RefsHeads>>, <<RefsHead>>, <<Refs>>}

\* the refs a repository of a getBranchesDifferingFromUpstream call may
\* hold: the local branches a and b, the remote branches o/a and o/b, and
\* a ref outside refs/heads and refs/remotes
DiffRefPool ==
    {RefEntry(HeadsA, <<"a">>, up, <<>>, Sha1, Short(Sha1), GoodIdentity,
              GoodIdentity, <<>>, head) :
        up \in {<<>>, RemotesOA, RemotesOB},
        head \in {<<" ">>, <<"*">>}}
    \cup
    {RefEntry(HeadsB, <<"b">>, up, <<>>, Sha2, Short(Sha2), GoodIdentity,
              GoodIdentity, <<>>, <<" ">>) :
        up \in {RemotesOA, RemotesOB}}
    \cup
    {RefEntry(RemotesOA, <<"o", "/", "a">>, <<>>, <<>>, r[1], Short(r[1]),
              GoodIdentity, GoodIdentity, r[2], <<" ">>) :
        r \in {<<Sha1, <<>>>>, <<Sha3, <<>>>>, <<Sha3, RemotesOB>>}}
    \cup
    {RefEntry(RemotesOB, <<"o", "/", "b">>, <<>>, <<>>, Sha1, Short(Sha1),
              GoodIdentity, GoodIdentity, <<>>, <<" ">>)}
    \cup
    {RefEntry(HeadX, <<"h", "e", "a", "d", "/", "x">>, RemotesOA, <<>>, Sha2,
              Short(Sha2), GoodIdentity, GoodIdentity, <<>>, <<" ">>)}

\* the records a response given to the tokenizer of getBranches may hold:
\* fields that are empty, that start or end with a newline, that are one
\* newline
TokenRecordPool ==
    {RefEntry(ref, <<"n">>, <<>>, <<>>, Sha1, Short(Sha1), author,
              GoodIdentity, sym, <<" ">>) :
        ref \in {<<>>, <<LF>>, <<"r">>, <<LF, LF, "r">>},
        author \in {GoodIdentity, NewlineIdentity},
        sym \in {<<>>, <<LF>>, <<"s", LF>>}}

\* the sequences of at most n elements of a set
RECURSIVE SeqsUpTo(_, _)
SeqsUpTo(S, n) ==
    IF n = 0 THEN {<<>>}
    ELSE LET shorter == SeqsUpTo(S, n - 1)
         IN  shorter \cup
                 {Append(p[1], p[2]) :
                      p \in {q \in shorter \X S : Len(q[1]) = n - 1}}

\* the ref stores of at most n refs over a pool: every ref path names one
\* ref, and at most one ref is the checked-out one
RECURSIVE RefStores(_, _)
RefStores(pool, n) ==
    IF n = 0 THEN {<<>>}
    ELSE LET shorter == RefStores(pool, n - 1)
             Fits(w, e) ==
                 /\ Len(w) = n - 1
                 /\ \A i \in DOMAIN w : w[i].ref # e.ref
                 /\ e.head = <<"*">> =>
                        \A i \in DOMAIN w : w[i].head # <<"*">>
         IN  shorter \cup
                 {Append(p[1], p[2]) :
                      p \in {q \in shorter \X pool : Fits(q[1], q[2])}}

\* the repositories: a ref store, a directory that is no repository, or a
\* repository on which the request fails otherwise
Worlds(pool, n) ==
    {[status |-> "ok", refs |-> w] : w \in RefStores(pool, n)}
    \cup {[status |-> "NotAGitRepository", refs |-> <<>>],
          [status |-> "OtherError", refs |-> <<>>]}

\* Branch objects of the caller: the fields the function reads, and id, the
\* identity of the object
BranchA == [id |-> 1, name |-> <<"a">>, type |-> "Local"]
BranchB == [id |-> 2, name |-> <<"b">>, type |-> "Local"]
BranchRemoteA == [id |-> 3, name |-> <<"a">>, type |-> "Remote"]

\* the lists a caller may pass as allBranches
AllBranchesInputs ==
    {<<>>, <<BranchA, BranchB>>, <<BranchA, BranchA>>,
     <<BranchB, BranchRemoteA, BranchA>>}

-----------------------------------------------------------------------------
(* Specifications *)

InitLocals ==
    /\ pc = "start"
    /\ gitCalls = 0
    /\ result = NoResult
    /\ lines = <<>>
    /\ ix = 0
    /\ pieces = <<>>
    /\ branches = <<>>
    /\ localBranches = <<>>
    /\ remoteBranchShas = EmptyMap
    /\ eligibleBranchNames = {}
    /\ ret = Pending

InitList ==
    /\ fn = "getBranches"
    /\ world \in Worlds(ListRefPool, MaxListRefs)
    /\ prefixes \in ListPrefixes
    /\ allBranches = <<>>
    /\ InitLocals

InitDiff ==
    /\ fn = "getBranchesDifferingFromUpstream"
    /\ world \in Worlds(DiffRefPool, MaxDiffRefs)
    /\ prefixes = <<>>
    /\ allBranches \in AllBranchesInputs
    /\ InitLocals

Init == InitList \/ InitDiff

NextList ==
    \/ GetBranchesCall
    \/ GetBranchesNotARepository
    \/ GetBranchesSplit
    \/ GetBranchesLine
    \/ GetBranchesReturn

NextDiff ==
    \/ DifferingCall
    \/ DifferingNotARepository
    \/ DifferingSplit
    \/ DifferingCollect
    \/ DifferingCompare
    \/ DifferingReturn

Next == NextList \/ NextDiff

\* one call of getBranches
SpecList == InitList /\ [][NextList]_vars

\* one call of getBranchesDifferingFromUpstream
SpecDiff == InitDiff /\ [][NextDiff]_vars

\* one call of getBranchesDifferingFromUpstream with the three branches as
\* allBranches
InitDiffAll == InitDiff /\ allBranches = <<BranchB, BranchRemoteA, BranchA>>

SpecDiffAll == InitDiffAll /\ [][NextDiff]_vars

\* getBranches from the response on, for a response of any records
InitTokens ==
    /\ fn = "getBranches"
    /\ \E rs \in SeqsUpTo(TokenRecordPool, MaxTokenRecords) :
           /\ world = [status |-> "ok", refs |-> rs]
           /\ result = [threw |-> FALSE, gitError |-> "",
                        stdout |-> RenderRefs(ListFormat, rs)]
    /\ prefixes = EffectivePrefixes(<<>>)
    /\ allBranches = <<>>
    /\ pc = "called"
    /\ gitCalls = 1
    /\ lines = <<>>
    /\ ix = 0
    /\ pieces = <<>>
    /\ branches = <<>>
    /\ localBranches = <<>>
    /\ remoteBranchShas = EmptyMap
    /\ eligibleBranchNames = {}
    /\ ret = Pending

NextTokens ==
    \/ GetBranchesSplit
    \/ GetBranchesLine
    \/ GetBranchesReturn

SpecTokens == InitTokens /\ [][NextTokens]_vars

\* one call of either function
Spec == Init /\ [][Next]_vars

-----------------------------------------------------------------------------
(* Properties of getBranchesDifferingFromUpstream, under SpecDiff; C10    *)
(* under SpecDiffAll                                                       *)

\* the records of the response, as the ref store holds them
DiffResponse == ShownRefs(DiffPrefixes, world.refs)

UniqueRefs(rs) ==
    \A i, j \in DOMAIN rs : rs[i].ref = rs[j].ref => i = j

UniqueNames(rs) ==
    \A i, j \in DOMAIN rs : rs[i].name = rs[j].name => i = j

InLocalHeads(ref) == StartsWith(ref, RefsHeads)

DiffCompleted == pc = "done" /\ world.status = "ok"

\* record r is a local branch that is neither symbolic nor checked out and
\* has an upstream
LocalCandidate(r) ==
    /\ InLocalHeads(r.ref)
    /\ r.symref = <<>>
    /\ r.head # <<"*">>
    /\ r.upstream # <<>>

\* record q is a remote record that is neither symbolic nor checked out
RemoteIndexed(q) ==
    /\ ~InLocalHeads(q.ref)
    /\ q.symref = <<>>
    /\ q.head # <<"*">>

\* the response holds a local candidate of the name of b whose upstream is
\* a remote record of another SHA
Diverged(b, rs) ==
    \E i, j \in DOMAIN rs :
        /\ rs[i].name = b.name
        /\ LocalCandidate(rs[i])
        /\ RemoteIndexed(rs[j])
        /\ rs[j].ref = rs[i].upstream
        /\ rs[j].sha # rs[i].sha

\* C1: over a response of unique ref paths and unique short names, a branch
\* of allBranches is returned if and only if it is Local and the response
\* holds a local, non-symbolic, not checked-out record of its name whose
\* upstream is a non-symbolic remote record of a different SHA.
C1_ReturnedIffDiverged ==
    (DiffCompleted /\ UniqueRefs(DiffResponse) /\ UniqueNames(DiffResponse))
    => /\ ret.kind = "return"
       /\ \A k \in DOMAIN allBranches :
              allBranches[k] \in Range(ret.value)
              <=> /\ allBranches[k].type = "Local"
                  /\ Diverged(allBranches[k], DiffResponse)

\* a call that returned one local branch and left out another whose SHA is
\* that of its upstream
C1_Witness ==
    /\ DiffCompleted
    /\ Len(ret.value) >= 1
    /\ \E k \in DOMAIN allBranches : \E i, j \in DOMAIN DiffResponse :
           /\ allBranches[k].type = "Local"
           /\ allBranches[k] \notin Range(ret.value)
           /\ DiffResponse[i].name = allBranches[k].name
           /\ LocalCandidate(DiffResponse[i])
           /\ RemoteIndexed(DiffResponse[j])
           /\ DiffResponse[j].ref = DiffResponse[i].upstream
           /\ DiffResponse[j].sha = DiffResponse[i].sha

\* C2: the checked-out branch (the record whose HEAD marker is '*') is
\* never among the returned branches.
C2_CurrentBranchExcluded ==
    (DiffCompleted /\ UniqueNames(DiffResponse))
    => \A i \in DOMAIN DiffResponse :
           DiffResponse[i].head = <<"*">>
           => \A k \in DOMAIN ret.value :
                  ret.value[k].name # DiffResponse[i].name

\* a call over a response whose checked-out branch differs from its
\* upstream and is one of the Local branches of allBranches
C2_Witness ==
    /\ DiffCompleted
    /\ \E i, j \in DOMAIN DiffResponse : \E k \in DOMAIN allBranches :
           /\ DiffResponse[i].head = <<"*">>
           /\ InLocalHeads(DiffResponse[i].ref)
           /\ RemoteIndexed(DiffResponse[j])
           /\ DiffResponse[j].ref = DiffResponse[i].upstream
           /\ DiffResponse[j].sha # DiffResponse[i].sha
           /\ allBranches[k].name = DiffResponse[i].name
           /\ allBranches[k].type = "Local"

\* C3: a local branch whose upstream has no entry in the remote-SHA index
\* is not returned, and the call returns without an error.
C3_MissingUpstreamExcluded ==
    DiffCompleted
    => /\ ret.kind = "return"
       /\ \A i \in DOMAIN DiffResponse :
              (/\ LocalCandidate(DiffResponse[i])
               /\ DiffResponse[i].upstream \notin DOMAIN remoteBranchShas
               /\ UniqueNames(DiffResponse))
              => \A k \in DOMAIN ret.value :
                     ret.value[k].name # DiffResponse[i].name

\* a call over a response with a local branch of allBranches whose upstream
\* no record of the response has, and that returned another branch
C3_Witness ==
    /\ DiffCompleted
    /\ Len(ret.value) >= 1
    /\ \E i \in DOMAIN DiffResponse : \E k \in DOMAIN allBranches :
           /\ LocalCandidate(DiffResponse[i])
           /\ \A j \in DOMAIN DiffResponse :
                  DiffResponse[j].ref # DiffResponse[i].upstream
           /\ DiffResponse[i].upstream \notin DOMAIN remoteBranchShas
           /\ allBranches[k].name = DiffResponse[i].name
           /\ allBranches[k].type = "Local"

\* s is t with elements left out
RECURSIVE IsSubList(_, _)
IsSubList(s, t) ==
    IF s = <<>> THEN TRUE
    ELSE IF t = <<>> THEN FALSE
    ELSE IF Head(s) = Head(t) THEN IsSubList(Tail(s), Tail(t))
    ELSE IsSubList(s, Tail(t))

C4_Returned ==
    (pc = "done" /\ ret.kind = "return")
    => /\ IsSubList(ret.value, allBranches)
       /\ \A k \in DOMAIN ret.value : ret.value[k].type = "Local"

C4_Frame == allBranches' = allBranches

\* C4: the returned list is allBranches with elements left out, in the
\* order of allBranches: the input objects themselves, each of type Local,
\* none more often than allBranches holds it; allBranches is never changed.
C4_SubListOfAllBranches == []C4_Returned /\ [][C4_Frame]_vars

\* a call that returned some, not all, of several branches
C4_Witness ==
    /\ DiffCompleted
    /\ Len(ret.value) >= 1
    /\ Len(ret.value) < Len(allBranches)
    /\ \E k \in DOMAIN allBranches :
           /\ allBranches[k].type = "Remote"
           /\ allBranches[k].name \in eligibleBranchNames

\* the response of git for the ref store in the order p
Permuted(p) ==
    ForEachRef(DiffFormat, DiffPrefixes,
               [i \in DOMAIN world.refs |-> world.refs[p[i]]])

\* C10: the returned list is the one the function returns for every
\* response holding the same records in another order.
C10_OrderIndependent ==
    (DiffCompleted /\ UniqueRefs(DiffResponse))
    => \A p \in Permutations(DOMAIN world.refs) :
           DifferingFromUpstream(Permuted(p), allBranches) = ret.value

\* a call that returned two branches, one whose upstream's record comes
\* before its own and one whose upstream's record comes after its own
C10_Witness ==
    /\ DiffCompleted
    /\ Len(ret.value) = 2
    /\ ret.value[1] # ret.value[2]
    /\ \E i, j, k \in DOMAIN DiffResponse :
           /\ i < j /\ j < k
           /\ LocalCandidate(DiffResponse[i])
           /\ LocalCandidate(DiffResponse[k])
           /\ DiffResponse[i].upstream = DiffResponse[j].ref
           /\ DiffResponse[k].upstream = DiffResponse[j].ref

-----------------------------------------------------------------------------
(* Properties of getBranches, under SpecList *)

\* the records of the response, as the ref store holds them
ListResponse == ShownRefs(EffectivePrefixes(prefixes), world.refs)

\* the 8 fields of a record in the order of the format
ListFields(e) ==
    <<e.ref, e.name, e.upstreamShort, e.sha, e.shortSha, e.author,
      e.committer, e.symref>>

ListCompleted == pc = "done" /\ world.status = "ok"

Unparseable(e) ==
    ParseIdentity(e.author) = None \/ ParseIdentity(e.committer) = None

WellFormed(rs) == \A i \in DOMAIN rs : ~Unparseable(rs[i])

NotSymbolic(e) == e.symref = <<>>

\* C5: over a well-formed response the returned branches are those of the
\* records without symbolic-ref target, in the order of the records: as
\* many as there are records less the symbolic ones, and none, without an
\* error, for a response of no record.
C5_OneBranchPerPlainRecord ==
    (ListCompleted /\ WellFormed(ListResponse))
    => LET kept == SelectSeq(ListResponse, NotSymbolic)
           symbolic == {i \in DOMAIN ListResponse :
                            ListResponse[i].symref # <<>>}
       IN  /\ ret.kind = "return"
           /\ Len(ret.value) = Len(ListResponse) - Cardinality(symbolic)
           /\ \A k \in DOMAIN ret.value :
                  /\ ret.value[k].name = kept[k].name
                  /\ ret.value[k].tip.sha = kept[k].sha
           /\ (Len(ListResponse) = 0 => ret = Return(<<>>))

\* a call over a well-formed response of three records, one of them
\* symbolic and not the last
C5_Witness ==
    /\ ListCompleted
    /\ WellFormed(ListResponse)
    /\ Len(ListResponse) = 3
    /\ Len(ret.value) = 2
    /\ ListResponse[3].symref = <<>>

\* C6: the type of a branch is Local if and only if the ref path of its
\* record begins with refs/heads, and Remote otherwise.
C6_LocalIffRefsHeads ==
    (ListCompleted /\ WellFormed(ListResponse))
    => LET kept == SelectSeq(ListResponse, NotSymbolic)
       IN  \A k \in DOMAIN ret.value :
               /\ ret.value[k].type \in {"Local", "Remote"}
               /\ ret.value[k].type = "Local"
                  <=> StartsWith(kept[k].ref, RefsHeads)

\* the first record of the response whose author or committer does not parse
FirstUnparseable(rs) ==
    CHOOSE i \in DOMAIN rs :
        Unparseable(rs[i]) /\ \A j \in 1..(i - 1) : ~Unparseable(rs[j])

\* C7: when the author or the committer of a record of the response does
\* not parse, the call throws the error naming the short object id of the
\* first such record and returns no list, whatever the records before it
\* and whether or not the record is symbolic.
C7_UnparseableIdentityThrows ==
    (ListCompleted /\ ~WellFormed(ListResponse))
    => LET e == ListResponse[FirstUnparseable(ListResponse)]
       IN  ret = Throw(IF ParseIdentity(e.author) = None
                       THEN AuthorError(e.shortSha)
                       ELSE CommitterError(e.shortSha))

\* a call that threw for the committer of a later record after it had
\* built a branch from an earlier one
C7_Witness ==
    /\ ListCompleted
    /\ ~WellFormed(ListResponse)
    /\ FirstUnparseable(ListResponse) >= 2
    /\ Len(branches) >= 1
    /\ ret.kind = "throw"
    /\ LET e == ListResponse[FirstUnparseable(ListResponse)]
       IN  ParseIdentity(e.author) # None

\* the number of the record split last, 0 before the first one
SplitLast == IF ret.kind = "throw" THEN ix + 1 ELSE ix

NoSeparator(e) ==
    \A k \in 1..8 : \A i \in DOMAIN ListFields(e)[k] :
        ListFields(e)[k][i] \notin {NUL, delimiterString}

\* C9 (under SpecTokens, where the response holds the records world.refs):
\* over records whose fields hold neither NUL nor the sentinel, the lines
\* are as many as the records, and the first 8 pieces of every record split
\* are the 8 fields of that record, leading and trailing newlines included.
C9_FieldsRecovered ==
    (/\ pc \in {"loop", "done"}
     /\ \A i \in DOMAIN world.refs : NoSeparator(world.refs[i]))
    => /\ Len(lines) = Len(world.refs)
       /\ SplitLast >= 1
          => SubSeq(pieces, 1, 8) = ListFields(world.refs[SplitLast])

\* a call that has split a second record, one whose first field starts with
\* newlines, after a record whose last field ends with a newline
C9_Witness ==
    /\ pc = "loop"
    /\ ix = 2
    /\ world.refs[1].symref = <<"s", LF>>
    /\ world.refs[2].ref = <<LF, LF, "r">>
    /\ pieces[1] = world.refs[2].ref

-----------------------------------------------------------------------------
(* Properties of both functions, under Spec *)

C8_OneRequest ==
    /\ gitCalls <= 1
    /\ pc # "start" => gitCalls = 1
    /\ (pc = "done" /\ world.status = "NotAGitRepository")
       => ret = Return(<<>>)
    /\ (pc = "done" /\ world.status = "OtherError")
       => ret = Throw(<<"OtherError">>)

C8_NothingParsed ==
    (pc = "called" /\ result.gitError = "NotAGitRepository")
    => /\ pc' = "done"
       /\ UNCHANGED <<gitCalls, lines, ix, pieces, branches, localBranches,
                      remoteBranchShas, eligibleBranchNames>>

\* C8: a call sends one request and no second one; when the request
\* reports that the directory is no repository the call returns an empty
\* list at once, parsing nothing and throwing nothing; any other error of
\* the request is the error the call throws.
C8_OneRequestNoRetry == []C8_OneRequest /\ [][C8_NothingParsed]_vars

\* a call of getBranchesDifferingFromUpstream, with branches to filter,
\* that returned the empty list for a directory that is no repository
C8_Witness ==
    /\ fn = "getBranchesDifferingFromUpstream"
    /\ pc = "done"
    /\ world.status = "NotAGitRepository"
    /\ Len(allBranches) >= 1
    /\ gitCalls = 1
    /\ ret = Return(<<>>)

====
